---- MODULE Spec2Model ----
(***************************************************************************)
(* Timeline engine of the dual-avatar platform backend:                    *)
(*   services/timeline.service.ts     (clip store operations, collision    *)
(*                                     detection, auto-arrangement)        *)
(*   controllers/timeline.controller.ts (the HTTP handlers around them)    *)
(*                                                                         *)
(* Times are JavaScript numbers, binary floating point values: a number is  *)
(* a whole count of the smallest unit in play, and the result of + and - is *)
(* rounded to the nearest number whose significand fits (ties to even).     *)
(* A value a request may leave out is an option: None is JavaScript's       *)
(* undefined, Some(v) a supplied value.                                     *)
(***************************************************************************)
EXTENDS Integers, Sequences, FiniteSets, TLC

\* Largest time value a request (or a drawn clip) carries.
MaxTime == 3

\* Bits of significand a number keeps (a double keeps 53).
SigBits == 2

RECURSIVE Pow2(_)
Pow2(k) == IF k = 0 THEN 1 ELSE 2 * Pow2(k - 1)

\* Length of the binary numeral of a natural number.
RECURSIVE BitLen(_)
BitLen(n) == IF n = 0 THEN 0 ELSE 1 + BitLen(n \div 2)

\* Round to nearest, ties to even, of a natural number.
RoundNat(m) ==
  IF BitLen(m) <= SigBits THEN m
  ELSE LET ulp  == Pow2(BitLen(m) - SigBits)
           q    == m \div ulp
           r    == m % ulp
           down == q * ulp
           up   == (q + 1) * ulp
       IN IF 2 * r < ulp THEN down
          ELSE IF 2 * r > ulp THEN up
          ELSE IF q % 2 = 0 THEN down ELSE up

\* The number nearest to the exact value x.
Round(x) == IF x < 0 THEN 0 - RoundNat(0 - x) ELSE RoundNat(x)

\* a + b  and  a - b  on numbers.
Plus(a, b) == Round(a + b)

Minus(a, b) == Round(a - b)

\* The numbers from 0 to MaxTime.
Times == {t \in 0..MaxTime : Round(t) = t}

\* trackIndex values used by requests.
Tracks == {0, 1}

\* The identifiers uuidv4() hands out, in order.
Uuids == <<"u1", "u2">>

ClipIds == {Uuids[i] : i \in 1..Len(Uuids)}

None == <<>>

Some(v) == <<v>>

Opt(S) == {None} \cup {Some(v) : v \in S}

\* JavaScript's  a || b  on an optional number: undefined and 0 are falsy.
OrElse(o, b) == IF o = None \/ o[1] = 0 THEN b ELSE o[1]

\* a !== undefined ? a : b
IfDefined(o, b) == IF o = None THEN b ELSE o[1]

VARIABLES
  clips,    \* table timeline_clips of one video: clip id -> row
  nextId,   \* index in Uuids of the identifier uuidv4() returns next
  last,     \* the request handled and its outcome (single-request runs)
  input,    \* the clip array handed to an engine function
  output,   \* what the engine functions returned
  pc        \* position of the engine run

vars == <<clips, nextId, last, input, output, pc>>

(***************************************************************************)
(* Rows and clips                                                          *)
(***************************************************************************)

\* parseClipFromRow: the TimelineClip read from a database row.
parseClipFromRow(row) ==
  [id         |-> row.id,
   trackIndex |-> row.track_index,
   startTime  |-> row.start_time,
   endTime    |-> row.end_time,
   duration   |-> row.duration]

\* { ...clip } as the Partial<TimelineClip> a caller passes on.
Spread(clip) ==
  [trackIndex |-> Some(clip.trackIndex),
   startTime  |-> clip.startTime,
   endTime    |-> clip.endTime,
   duration   |-> Some(clip.duration)]

\* An update that names no field.
NoUpdates ==
  [trackIndex |-> None, startTime |-> None, endTime |-> None, duration |-> None]

Ok == "ok"

\* What a service call or handler leaves behind: the table, the uuid
\* counter, how it ended and the clips it returned.
Outcome(db, nid, status, ret) ==
  [db |-> db, nid |-> nid, status |-> status, ret |-> ret]

(***************************************************************************)
(* services/timeline.service.ts                                            *)
(***************************************************************************)

\* createTimelineClip: INSERT ... RETURNING *, with the defaults of the
\* parameter list.
createTimelineClip(db, nid, clipData) ==
  LET row == [id          |-> Uuids[nid],
              track_index |-> OrElse(clipData.trackIndex, 0),
              start_time  |-> clipData.startTime,
              end_time    |-> clipData.endTime,
              duration    |-> OrElse(clipData.duration,
                                     Minus(clipData.endTime, clipData.startTime))]
  IN Outcome(db @@ (row.id :> row), nid + 1, Ok, <<parseClipFromRow(row)>>)

\* getTimelineClips: SELECT ... ORDER BY track_index, start_time.  SQL leaves
\* the order of rows that tie on both columns open: every order is possible.
getTimelineClips(db) ==
  LET ids == DOMAIN db
      n   == Cardinality(ids)
      Before(a, b) == \/ a.track_index < b.track_index
                      \/ /\ a.track_index = b.track_index
                         /\ a.start_time <= b.start_time
  IN { s \in [1..n -> ids] :
         /\ \A i, j \in 1..n : i # j => s[i] # s[j]
         /\ \A i, j \in 1..n : i < j => Before(db[s[i]], db[s[j]]) }

\* updateTimelineClip: UPDATE ... SET <the fields given> ... RETURNING *.
\* No row matches an unknown id, and parseClipFromRow(undefined) throws.
updateTimelineClip(db, nid, clipId, updates) ==
  IF clipId \notin DOMAIN db
  THEN Outcome(db, nid, "TypeError", <<>>)
  ELSE LET old == db[clipId]
           row == [id          |-> old.id,
                   track_index |-> IfDefined(updates.trackIndex, old.track_index),
                   start_time  |-> IfDefined(updates.startTime, old.start_time),
                   end_time    |-> IfDefined(updates.endTime, old.end_time),
                   duration    |-> IfDefined(updates.duration, old.duration)]
       IN Outcome([db EXCEPT ![clipId] = row], nid, Ok, <<parseClipFromRow(row)>>)

\* deleteTimelineClip
deleteTimelineClip(db, nid, clipId) ==
  Outcome([id \in DOMAIN db \ {clipId} |-> db[id]], nid, Ok, <<>>)

\* duplicateTimelineClip
duplicateTimelineClip(db, nid, clipId, offsetTime) ==
  IF clipId \notin DOMAIN db
  THEN Outcome(db, nid, "NotFound", <<>>)
  ELSE LET originalClip == parseClipFromRow(db[clipId])
           offset == OrElse(offsetTime, originalClip.duration)
       IN createTimelineClip(db, nid,
            [Spread(originalClip) EXCEPT
               !.startTime = Plus(originalClip.startTime, offset),
               !.endTime   = Plus(originalClip.endTime, offset)])

\* trimClip
trimClip(db, nid, clipId, newStartTime, newEndTime) ==
  LET duration == Minus(newEndTime, newStartTime)
  IN updateTimelineClip(db, nid, clipId,
       [NoUpdates EXCEPT !.startTime = Some(newStartTime),
                         !.endTime   = Some(newEndTime),
                         !.duration  = Some(duration)])

\* splitClip as it would be if the second clip kept the spread startTime.
splitClip_keepStart(db, nid, clipId, splitTime) ==
  IF clipId \notin DOMAIN db
  THEN Outcome(db, nid, "NotFound", <<>>)
  ELSE LET originalClip == parseClipFromRow(db[clipId])
       IN IF splitTime <= originalClip.startTime \/ splitTime >= originalClip.endTime
          THEN Outcome(db, nid, "SplitOutOfBounds", <<>>)
          ELSE LET first  == updateTimelineClip(db, nid, clipId,
                               [NoUpdates EXCEPT
                                  !.endTime  = Some(splitTime),
                                  !.duration = Some(Minus(splitTime, originalClip.startTime))])
                   second == createTimelineClip(first.db, first.nid,
                               [Spread(originalClip) EXCEPT
                                  !.endTime   = originalClip.endTime,
                                  !.duration  = Some(Minus(originalClip.endTime, splitTime))])
               IN Outcome(second.db, second.nid, Ok, first.ret \o second.ret)

\* splitClip as it would be if the bounds test were  <  and  > .
splitClip_nonStrict(db, nid, clipId, splitTime) ==
  IF clipId \notin DOMAIN db
  THEN Outcome(db, nid, "NotFound", <<>>)
  ELSE LET originalClip == parseClipFromRow(db[clipId])
       IN IF splitTime < originalClip.startTime \/ splitTime > originalClip.endTime
          THEN Outcome(db, nid, "SplitOutOfBounds", <<>>)
          ELSE LET first  == updateTimelineClip(db, nid, clipId,
                               [NoUpdates EXCEPT
                                  !.endTime  = Some(splitTime),
                                  !.duration = Some(Minus(splitTime, originalClip.startTime))])
                   second == createTimelineClip(first.db, first.nid,
                               [Spread(originalClip) EXCEPT
                                  !.startTime = splitTime,
                                  !.endTime   = originalClip.endTime,
                                  !.duration  = Some(Minus(originalClip.endTime, splitTime))])
               IN Outcome(second.db, second.nid, Ok, first.ret \o second.ret)

\* splitClip
splitClip(db, nid, clipId, splitTime) ==
  IF clipId \notin DOMAIN db
  THEN Outcome(db, nid, "NotFound", <<>>)
  ELSE LET originalClip == parseClipFromRow(db[clipId])
       IN IF splitTime <= originalClip.startTime \/ splitTime >= originalClip.endTime
          THEN Outcome(db, nid, "SplitOutOfBounds", <<>>)
          ELSE LET first  == updateTimelineClip(db, nid, clipId,
                               [NoUpdates EXCEPT
                                  !.endTime  = Some(splitTime),
                                  !.duration = Some(Minus(splitTime, originalClip.startTime))])
                   second == createTimelineClip(first.db, first.nid,
                               [Spread(originalClip) EXCEPT
                                  !.startTime = splitTime,
                                  !.endTime   = originalClip.endTime,
                                  !.duration  = Some(Minus(originalClip.endTime, splitTime))])
               IN Outcome(second.db, second.nid, Ok, first.ret \o second.ret)

(***************************************************************************)
(* Collision detection and auto-arrangement (pure engine functions)        *)
(***************************************************************************)

Max(a, b) == IF a >= b THEN a ELSE b

Min(a, b) == IF a <= b THEN a ELSE b

\* The keys of the Map built by the forEach of the grouping loops, in
\* insertion order: each trackIndex at its first appearance.
RECURSIVE TrackKeys(_, _)
TrackKeys(cs, seen) ==
  IF cs = <<>> THEN <<>>
  ELSE IF Head(cs).trackIndex \in seen
       THEN TrackKeys(Tail(cs), seen)
       ELSE <<Head(cs).trackIndex>>
              \o TrackKeys(Tail(cs), seen \cup {Head(cs).trackIndex})

\* trackGroups.get(t): the clips of track t, in input order.
TrackGroup(cs, t) == SelectSeq(cs, LAMBDA c : c.trackIndex = t)

\* Overlap as it would be if it took the first clip's start and the second
\* clip's end.
Overlap_firstClip(clip1, clip2) ==
  [overlapStart |-> clip1.startTime, overlapEnd |-> clip2.endTime]

\* Math.max of the starts, Math.min of the ends.
Overlap(clip1, clip2) ==
  [overlapStart |-> Max(clip1.startTime, clip2.startTime),
   overlapEnd   |-> Min(clip1.endTime, clip2.endTime)]

\* Collides as it would be if the test were  <= .
Collides_touching(o) == o.overlapStart <= o.overlapEnd

\* The test under which a pair is pushed.
Collides(o) == o.overlapStart < o.overlapEnd

\* The nested loops  for i ... for j = i + 1 ...  over one track's clips.
RECURSIVE PairLoop(_, _, _)
PairLoop(trackClips, i, j) ==
  IF i > Len(trackClips) THEN <<>>
  ELSE IF j > Len(trackClips) THEN PairLoop(trackClips, i + 1, i + 2)
  ELSE LET clip1 == trackClips[i]
           clip2 == trackClips[j]
           o     == Overlap(clip1, clip2)
           hit   == IF Collides(o)
                    THEN <<[clip1 |-> clip1, clip2 |-> clip2,
                            overlapStart |-> o.overlapStart,
                            overlapEnd   |-> o.overlapEnd]>>
                    ELSE <<>>
       IN hit \o PairLoop(trackClips, i, j + 1)

RECURSIVE GroupLoop(_, _)
GroupLoop(cs, keys) ==
  IF keys = <<>> THEN <<>>
  ELSE PairLoop(TrackGroup(cs, Head(keys)), 1, 2) \o GroupLoop(cs, Tail(keys))

\* detectClipCollisions
detectClipCollisions(cs) == GroupLoop(cs, TrackKeys(cs, {}))

\* [...clips].sort((a, b) => a.startTime - b.startTime): Array.prototype.sort
\* is stable, clips of equal startTime keep their order.
RECURSIVE InsertByStart(_, _)
InsertByStart(sorted, c) ==
  IF sorted = <<>> THEN <<c>>
  ELSE IF Head(sorted).startTime <= c.startTime
       THEN <<Head(sorted)>> \o InsertByStart(Tail(sorted), c)
       ELSE <<c>> \o sorted

RECURSIVE SortByStart(_)
SortByStart(cs) ==
  IF cs = <<>> THEN <<>>
  ELSE InsertByStart(SortByStart(SubSeq(cs, 1, Len(cs) - 1)), cs[Len(cs)])

\* The body of the map callback: one clip against its track's end time.
PlaceClip(clip, trackEnd) ==
  IF clip.startTime < trackEnd
  THEN LET offset == Minus(trackEnd, clip.startTime)
       IN [clip EXCEPT !.startTime = trackEnd,
                       !.endTime   = Plus(clip.endTime, offset)]
  ELSE clip

\* sorted.map(...) with the Map trackEndTimes threaded through.
RECURSIVE ArrangeLoop(_, _)
ArrangeLoop(sorted, trackEndTimes) ==
  IF sorted = <<>> THEN <<>>
  ELSE LET clip     == Head(sorted)
           trackEnd == IF clip.trackIndex \in DOMAIN trackEndTimes
                       THEN trackEndTimes[clip.trackIndex]
                       ELSE 0
           placed   == PlaceClip(clip, trackEnd)
           ends     == [t \in DOMAIN trackEndTimes \cup {clip.trackIndex} |->
                          IF t = clip.trackIndex THEN placed.endTime
                          ELSE trackEndTimes[t]]
       IN <<placed>> \o ArrangeLoop(Tail(sorted), ends)

\* autoArrangeClips: the array it returns.
autoArrangeClips(cs) == ArrangeLoop(SortByStart(cs), <<>>)

\* autoArrangeClips writes startTime and endTime into the clip objects of the
\* array it is given: that array as the caller sees it after the call.
AfterArrange(cs) ==
  LET arranged == autoArrangeClips(cs)
  IN [i \in 1..Len(cs) |->
        LET k == CHOOSE k \in 1..Len(arranged) : arranged[k].id = cs[i].id
        IN arranged[k]]

(***************************************************************************)
(* controllers/timeline.controller.ts                                      *)
(***************************************************************************)

\* The express-validator chain of POST /video/:videoId/clips, whose result
\* createClip checks.
ValidCreate(clipData) ==
  /\ clipData.startTime >= 0
  /\ clipData.endTime >= 0
  /\ clipData.trackIndex # None => clipData.trackIndex[1] >= 0

\* createClip
createClip(db, nid, clipData) ==
  IF ~ValidCreate(clipData)
  THEN Outcome(db, nid, "BadRequest", <<>>)
  ELSE createTimelineClip(db, nid, clipData)

\* updateClip
updateClip(db, nid, clipId, updates) ==
  IF clipId \notin DOMAIN db
  THEN Outcome(db, nid, "NotFound", <<>>)
  ELSE updateTimelineClip(db, nid, clipId, updates)

\* removeClip
removeClip(db, nid, clipId) ==
  IF clipId \notin DOMAIN db
  THEN Outcome(db, nid, "NotFound", <<>>)
  ELSE deleteTimelineClip(db, nid, clipId)

\* copyClip
copyClip(db, nid, clipId, offsetTime) ==
  IF clipId \notin DOMAIN db
  THEN Outcome(db, nid, "NotFound", <<>>)
  ELSE duplicateTimelineClip(db, nid, clipId, offsetTime)

\* trimTimelineClip
trimTimelineClip(db, nid, clipId, startTime, endTime) ==
  IF clipId \notin DOMAIN db
  THEN Outcome(db, nid, "NotFound", <<>>)
  ELSE trimClip(db, nid, clipId, startTime, endTime)

\* splitTimelineClip
splitTimelineClip(db, nid, clipId, splitTime) ==
  IF clipId \notin DOMAIN db
  THEN Outcome(db, nid, "NotFound", <<>>)
  ELSE splitClip(db, nid, clipId, splitTime)

\* The loop  for (const clipUpdate of clips) await updateTimelineClip(...) :
\* no transaction, an exception leaves the earlier updates in place.
RECURSIVE UpdateEach(_, _, _)
UpdateEach(acc, ids, updates) ==
  IF ids = <<>> \/ acc.status # Ok THEN acc
  ELSE LET o == updateTimelineClip(acc.db, acc.nid, Head(ids), Head(updates))
       IN UpdateEach(Outcome(o.db, o.nid, o.status, acc.ret \o o.ret),
                     Tail(ids), Tail(updates))

\* arrangeClips, given the order in which getTimelineClips returned the rows.
arrangeClips(db, nid, order) ==
  LET cs       == [i \in 1..Len(order) |-> parseClipFromRow(db[order[i]])]
      arranged == autoArrangeClips(cs)
  IN UpdateEach(Outcome(db, nid, Ok, <<>>),
                [i \in 1..Len(arranged) |-> arranged[i].id],
                [i \in 1..Len(arranged) |->
                   [NoUpdates EXCEPT !.startTime = Some(arranged[i].startTime),
                                     !.endTime   = Some(arranged[i].endTime)]])

\* bulkUpdateClips: body.clips is a list of {id, ...fields}.
bulkUpdateClips(db, nid, ids, updates) ==
  UpdateEach(Outcome(db, nid, Ok, <<>>), ids, updates)

(***************************************************************************)
(* Requests                                                                *)
(***************************************************************************)

\* Bodies of POST /video/:videoId/clips.
CreateRequests ==
  [trackIndex : Opt(Tracks), startTime : {-1} \cup Times, endTime : Times,
   duration : Opt(Times)]

\* Bodies of PUT /clips/:clipId: one field, or startTime and endTime.
UpdateRequests ==
  {[NoUpdates EXCEPT !.trackIndex = Some(t)] : t \in Tracks}
    \cup {[NoUpdates EXCEPT !.startTime = Some(t)] : t \in Times}
    \cup {[NoUpdates EXCEPT !.endTime = Some(t)] : t \in Times}
    \cup {[NoUpdates EXCEPT !.duration = Some(t)] : t \in Times}
    \cup {[NoUpdates EXCEPT !.startTime = Some(s), !.endTime = Some(e)] :
            s \in Times, e \in Times}

\* Entries of body.clips of PUT /video/:videoId/bulk.
BulkEntries == {[NoUpdates EXCEPT !.startTime = Some(t)] : t \in Times}

\* No request handled yet.
Idle ==
  [op |-> "none", clipId |-> "", req |-> <<>>, before |-> <<>>,
   status |-> "", ret |-> <<>>]

\* Nothing computed yet.
NoOutput == [collisions |-> <<>>, arranged |-> <<>>, rearranged |-> <<>>]

\* The stored times stay within the modelled range.
InRange(db) ==
  \A id \in DOMAIN db : db[id].start_time \in Times /\ db[id].end_time \in Times

\* The handler's writes reach the table.
Commit(o) ==
  /\ InRange(o.db)
  /\ clips' = o.db
  /\ nextId' = o.nid
  /\ UNCHANGED <<last, input, output, pc>>

(***************************************************************************)
(* The clip store under any sequence of requests                           *)
(***************************************************************************)

Init ==
  /\ clips = <<>>
  /\ nextId = 1
  /\ last = Idle
  /\ input = <<>>
  /\ output = NoOutput
  /\ pc = "off"

CreateClipReq ==
  /\ nextId <= Len(Uuids)
  /\ \E clipData \in CreateRequests : Commit(createClip(clips, nextId, clipData))

UpdateClipReq ==
  \E clipId \in ClipIds, updates \in UpdateRequests :
    Commit(updateClip(clips, nextId, clipId, updates))

RemoveClipReq ==
  \E clipId \in ClipIds : Commit(removeClip(clips, nextId, clipId))

CopyClipReq ==
  /\ nextId <= Len(Uuids)
  /\ \E clipId \in ClipIds, offsetTime \in Opt(Times) :
       Commit(copyClip(clips, nextId, clipId, offsetTime))

TrimClipReq ==
  \E clipId \in ClipIds, s \in Times, e \in Times :
    Commit(trimTimelineClip(clips, nextId, clipId, s, e))

SplitClipReq ==
  /\ nextId <= Len(Uuids)
  /\ \E clipId \in ClipIds, splitTime \in Times :
       Commit(splitTimelineClip(clips, nextId, clipId, splitTime))

ArrangeClipsReq ==
  \E order \in getTimelineClips(clips) : Commit(arrangeClips(clips, nextId, order))

BulkUpdateReq ==
  \E n \in 1..2 :
    \E ids \in [1..n -> ClipIds], updates \in [1..n -> BulkEntries] :
      Commit(bulkUpdateClips(clips, nextId, ids, updates))

Next ==
  \/ CreateClipReq
  \/ UpdateClipReq
  \/ RemoveClipReq
  \/ CopyClipReq
  \/ TrimClipReq
  \/ SplitClipReq
  \/ ArrangeClipsReq
  \/ BulkUpdateReq

Spec == Init /\ [][Next]_vars

(***************************************************************************)
(* One request against a stored clip, its outcome recorded                 *)
(***************************************************************************)

\* The rows a stored clip can hold (each is reachable under Spec).
Rows ==
  [id : {Uuids[1]}, track_index : Tracks, start_time : Times,
   end_time : Times, duration : {d \in -MaxTime..MaxTime : Round(d) = d}]

InitOps ==
  /\ clips \in {<<>>} \cup {(row.id :> row) : row \in Rows}
  /\ nextId = Cardinality(DOMAIN clips) + 1
  /\ last = Idle
  /\ input = <<>>
  /\ output = NoOutput
  /\ pc = "off"

\* The handler's writes reach the table and the outcome is kept.
Record(op, clipId, req, o) ==
  /\ last = Idle
  /\ clips' = o.db
  /\ nextId' = o.nid
  /\ last' = [op |-> op, clipId |-> clipId, req |-> req, before |-> clips,
              status |-> o.status, ret |-> o.ret]
  /\ UNCHANGED <<input, output, pc>>

CreateClipOp ==
  \E clipData \in CreateRequests :
    Record("createClip", "", clipData, createClip(clips, nextId, clipData))

TrimClipOp ==
  \E clipId \in ClipIds, s \in Times, e \in Times :
    Record("trimClip", clipId, [startTime |-> s, endTime |-> e],
           trimTimelineClip(clips, nextId, clipId, s, e))

SplitClipOp ==
  \E clipId \in ClipIds, splitTime \in Times :
    Record("splitClip", clipId, [splitTime |-> splitTime],
           splitTimelineClip(clips, nextId, clipId, splitTime))

CopyClipOp ==
  \E clipId \in ClipIds, offsetTime \in Opt(Times) :
    Record("duplicateClip", clipId, [offsetTime |-> offsetTime],
           copyClip(clips, nextId, clipId, offsetTime))

NextOps ==
  \/ CreateClipOp
  \/ TrimClipOp
  \/ SplitClipOp
  \/ CopyClipOp

SpecOps == InitOps /\ [][NextOps]_vars

(***************************************************************************)
(* The engine functions on a drawn clip array                              *)
(***************************************************************************)

\* Identities of the clips of a drawn array, by position.
EngineIds == <<"A", "B", "C">>

\* Largest time value a clip of a drawn array carries.
MaxEngineTime == 2

EngineTimes == {t \in 0..MaxEngineTime : Round(t) = t}

\* Clip arrays of up to Len(EngineIds) clips.  endTime <= startTime is
\* included: createClip and trimClip store such clips.
EngineInputs ==
  UNION { { [i \in 1..n |->
               [id |-> EngineIds[i], trackIndex |-> f[i][1],
                startTime |-> f[i][2], endTime |-> f[i][3],
                duration |-> Minus(f[i][3], f[i][2])]] :
            f \in [1..n -> Tracks \X EngineTimes \X EngineTimes] } :
          n \in 0..Len(EngineIds) }

InitEngine ==
  /\ clips = <<>>
  /\ nextId = 1
  /\ last = Idle
  /\ input \in EngineInputs
  /\ output = NoOutput
  /\ pc = "ready"

\* checkCollisions on the array.
Detect ==
  /\ pc = "ready"
  /\ output' = [output EXCEPT !.collisions = detectClipCollisions(input)]
  /\ pc' = "detected"
  /\ UNCHANGED <<clips, nextId, last, input>>

\* autoArrangeClips on the array.
Arrange ==
  /\ pc = "ready"
  /\ output' = [output EXCEPT !.arranged = autoArrangeClips(input)]
  /\ input' = AfterArrange(input)
  /\ pc' = "arranged"
  /\ UNCHANGED <<clips, nextId, last>>

\* detectClipCollisions on the arranged array.
DetectArranged ==
  /\ pc = "arranged"
  /\ output' = [output EXCEPT !.collisions = detectClipCollisions(output.arranged)]
  /\ pc' = "checked"
  /\ UNCHANGED <<clips, nextId, last, input>>

\* autoArrangeClips on the arranged array.
ArrangeAgain ==
  /\ pc = "arranged"
  /\ output' = [output EXCEPT !.rearranged = autoArrangeClips(output.arranged)]
  /\ pc' = "rearranged"
  /\ UNCHANGED <<clips, nextId, last, input>>

NextEngine ==
  \/ Detect
  \/ Arrange
  \/ DetectArranged
  \/ ArrangeAgain

SpecEngine == InitEngine /\ [][NextEngine]_vars

(***************************************************************************)
(* Properties                                                              *)
(***************************************************************************)

\* The clip a recorded request named, as it was stored before the request.
Original == parseClipFromRow(last.before[last.clipId])

\* clip.duration === clip.endTime - clip.startTime, as JavaScript computes it.
DurationOk(clip) == clip.duration = Minus(clip.endTime, clip.startTime)

\* Each returned clip is the clip now stored under its id.
ReturnedAsStored ==
  \A i \in 1..Len(last.ret) :
    /\ last.ret[i].id \in DOMAIN clips
    /\ parseClipFromRow(clips[last.ret[i].id]) = last.ret[i]

\* C1: in every state of the clip store reachable by any sequence of create,
\* update, bulk update, trim, split, duplicate and arrange requests, every
\* stored clip has duration = endTime - startTime, whatever the caller
\* supplied.
C1_DurationInvariant ==
  \A id \in DOMAIN clips :
    DurationOk(parseClipFromRow(clips[id]))

\* C2: for a clip with duration = endTime - startTime, every clip returned by
\* trim, by split (both halves) and by duplicate has exactly
\* duration = endTime - startTime, and is what the store now holds.
C2_DurationAfterEdit ==
  (/\ last.op \in {"trimClip", "splitClip", "duplicateClip"}
   /\ last.status = Ok
   /\ DurationOk(Original))
  => /\ Len(last.ret) = (IF last.op = "splitClip" THEN 2 ELSE 1)
     /\ \A i \in 1..Len(last.ret) : DurationOk(last.ret[i])
     /\ ReturnedAsStored

\* C3: for startTime < t < endTime, split(clip, t) succeeds and returns two
\* clips: the first keeps the original id and startTime and ends at t, the
\* second has a new id, starts at t, ends at the original endTime and copies
\* the other fields; the two intervals cover the original one without gap
\* or overlap.
C3_SplitPartition ==
  (/\ last.op = "splitClip"
   /\ last.clipId \in DOMAIN last.before
   /\ Original.startTime < last.req.splitTime
   /\ last.req.splitTime < Original.endTime)
  => /\ last.status = Ok
     /\ Len(last.ret) = 2
     /\ LET first  == last.ret[1]
            second == last.ret[2]
        IN /\ first.id = Original.id
           /\ first.startTime = Original.startTime
           /\ first.endTime = last.req.splitTime
           /\ second.startTime = last.req.splitTime
           /\ second.endTime = Original.endTime
           /\ second.id \notin DOMAIN last.before
           /\ second.trackIndex = Original.trackIndex
           /\ first.trackIndex = Original.trackIndex
           /\ \A t \in Original.startTime..(Original.endTime - 1) :
                (first.startTime <= t /\ t < first.endTime)
                  # (second.startTime <= t /\ t < second.endTime)
     /\ ReturnedAsStored
     /\ DOMAIN clips = DOMAIN last.before \cup {last.ret[2].id}

\* A split strictly inside a clip has been handled.
C3_Witness ==
  /\ last.op = "splitClip"
  /\ last.clipId \in DOMAIN last.before
  /\ Original.startTime < last.req.splitTime
  /\ last.req.splitTime < Original.endTime
  /\ Len(last.ret) = 2

\* C4: split(clip, t) with t <= startTime or t >= endTime fails with
\* SplitOutOfBounds, split of an id absent from the store fails with
\* NotFound, and in both cases the store is left as it was.
C4_SplitRejected ==
  last.op = "splitClip"
  => /\ last.clipId \notin DOMAIN last.before
          => last.status = "NotFound" /\ clips = last.before
     /\ (/\ last.clipId \in DOMAIN last.before
         /\ \/ last.req.splitTime <= Original.startTime
            \/ last.req.splitTime >= Original.endTime)
          => last.status = "SplitOutOfBounds" /\ clips = last.before

\* A split at the very start of a stored clip has been refused.
C4_Witness ==
  /\ last.op = "splitClip"
  /\ last.clipId \in DOMAIN last.before
  /\ Original.startTime < Original.endTime
  /\ last.req.splitTime = Original.startTime
  /\ last.status = "SplitOutOfBounds"

\* C5: createClip with endTime <= startTime and trim with
\* newEnd <= newStart fail with InvalidRange and leave the store unchanged.
C5_InvalidRangeRejected ==
  (/\ \/ last.op = "createClip" /\ ValidCreate(last.req)
      \/ last.op = "trimClip" /\ last.clipId \in DOMAIN last.before
   /\ last.req.endTime <= last.req.startTime)
  => last.status = "InvalidRange" /\ clips = last.before

\* C6: duplicate(clip, offset) creates a clip with a new id, the original's
\* track, startTime + offset and endTime + offset for every offset the caller
\* gives, 0 included; clip.duration is the offset only when none is given.
C6_DuplicateOffset ==
  (last.op = "duplicateClip" /\ last.status = Ok)
  => /\ Len(last.ret) = 1
     /\ LET offset == IF last.req.offsetTime = None
                      THEN Original.duration
                      ELSE last.req.offsetTime[1]
            copy   == last.ret[1]
        IN /\ copy.id \notin DOMAIN last.before
           /\ copy.trackIndex = Original.trackIndex
           /\ copy.startTime = Plus(Original.startTime, offset)
           /\ copy.endTime = Plus(Original.endTime, offset)

\* The entries of a collision list that report the clips with ids a and b,
\* in either order.
Reports(coll, a, b) ==
  {k \in 1..Len(coll) : {coll[k].clip1.id, coll[k].clip2.id} = {a, b}}

\* A collision list as a set: the unordered pair and its overlap.
CollisionSet(coll) ==
  {[pair         |-> {coll[k].clip1.id, coll[k].clip2.id},
    overlapStart |-> coll[k].overlapStart,
    overlapEnd   |-> coll[k].overlapEnd] : k \in 1..Len(coll)}

\* The orders of an array of n clips.
Orders(n) ==
  {p \in [1..n -> 1..n] : \A i, j \in 1..n : i # j => p[i] # p[j]}

Permuted(cs, p) == [i \in 1..Len(cs) |-> cs[p[i]]]

\* C7: detectCollisions reports exactly one collision for each unordered pair
\* of distinct clips of one track with max(s1,s2) < min(e1,e2), carrying
\* overlapStart = max(s1,s2) and overlapEnd = min(e1,e2), and nothing else:
\* no pair of different tracks, no pair that only touches.
C7_CollisionsExact ==
  pc = "detected"
  => LET coll == output.collisions
     IN /\ \A i, j \in 1..Len(input) :
             i < j =>
               LET a == input[i]
                   b == input[j]
                   s == Max(a.startTime, b.startTime)
                   e == Min(a.endTime, b.endTime)
                   r == Reports(coll, a.id, b.id)
               IN IF a.trackIndex = b.trackIndex /\ s < e
                  THEN /\ Cardinality(r) = 1
                       /\ \A k \in r : /\ coll[k].overlapStart = s
                                       /\ coll[k].overlapEnd = e
                                       /\ {coll[k].clip1, coll[k].clip2} = {a, b}
                  ELSE r = {}
        /\ \A k \in 1..Len(coll) :
             \E i, j \in 1..Len(input) :
               i < j /\ k \in Reports(coll, input[i].id, input[j].id)

\* Three clips of one track have been examined: two overlap and are
\* reported, the third starts where one of them ends.
C7_Witness ==
  /\ pc = "detected"
  /\ Len(input) = 3
  /\ Len(output.collisions) = 1
  /\ \A i \in 1..3 : input[i].trackIndex = 0 /\ input[i].startTime < input[i].endTime
  /\ \E i, j \in 1..3 : input[i].endTime = input[j].startTime

\* C8: detectCollisions is symmetric: in whatever order the clips are given,
\* it reports the same unordered pairs with the same overlapStart and
\* overlapEnd.
C8_CollisionsSymmetric ==
  pc = "detected"
  => \A p \in Orders(Len(input)) :
       CollisionSet(detectClipCollisions(Permuted(input, p)))
         = CollisionSet(output.collisions)

\* Three clips that overlap pairwise with different overlaps have been
\* examined.
C8_Witness ==
  /\ pc = "detected"
  /\ Len(input) = 3
  /\ Cardinality(CollisionSet(output.collisions)) = 3
  /\ \E k \in 1..3 : output.collisions[k].clip1.startTime
                       # output.collisions[k].clip2.startTime

\* C9: for every clip array, detectCollisions(autoArrange(clips)) is empty.
C9_ArrangedNoCollisions ==
  pc = "checked" => output.collisions = <<>>

\* C10: autoArrange is idempotent: arranging the arranged array gives every
\* clip the startTime and endTime it already has.
C10_ArrangeIdempotent ==
  pc = "rearranged"
  => \A i \in 1..Len(output.arranged) :
       \E k \in 1..Len(output.rearranged) :
         /\ output.rearranged[k].id = output.arranged[i].id
         /\ output.rearranged[k].startTime = output.arranged[i].startTime
         /\ output.rearranged[k].endTime = output.arranged[i].endTime

\* The clip of an array that carries the id of c.
Same(cs, c) == CHOOSE k \in 1..Len(cs) : cs[k].id = c.id

\* The cursor of an arranged array at position k: the endTime of the nearest
\* earlier clip of the same track, 0 when there is none.
Cursor(arranged, k) ==
  LET earlier == {j \in 1..(k - 1) : arranged[j].trackIndex = arranged[k].trackIndex}
  IN IF earlier = {} THEN 0
     ELSE arranged[CHOOSE j \in earlier : \A i \in earlier : i <= j].endTime

\* C11: autoArrange is stable: on a clip array for which detectCollisions
\* reports nothing, it returns every clip with the startTime and endTime it
\* had.
C11_ArrangeStable ==
  [][(/\ pc = "ready"
      /\ pc' = "arranged"
      /\ detectClipCollisions(input) = <<>>)
     => /\ Len(output'.arranged) = Len(input)
        /\ \A i \in 1..Len(input) :
             LET after == output'.arranged[Same(output'.arranged, input[i])]
             IN /\ after.startTime = input[i].startTime
                /\ after.endTime = input[i].endTime]_vars

\* C12: autoArrange returns the ids it was given, each once, keeps every
\* clip's trackIndex and its endTime - startTime, and moves a clip only
\* forward: to its track's cursor, by cursor - startTime, when it starts
\* before the cursor, and not at all otherwise.
C12_ArrangeShiftsForward ==
  [][(pc = "ready" /\ pc' = "arranged")
     => LET arranged == output'.arranged
        IN /\ Len(arranged) = Len(input)
           /\ {arranged[k].id : k \in 1..Len(arranged)}
                = {input[i].id : i \in 1..Len(input)}
           /\ \A k \in 1..Len(arranged) :
                LET before == input[Same(input, arranged[k])]
                    after  == arranged[k]
                    cursor == Cursor(arranged, k)
                IN /\ after.trackIndex = before.trackIndex
                   /\ Minus(after.endTime, after.startTime)
                        = Minus(before.endTime, before.startTime)
                   /\ after.startTime >= before.startTime
                   /\ IF before.startTime < cursor
                      THEN /\ after.startTime = cursor
                           /\ after.endTime - before.endTime
                                = cursor - before.startTime
                      ELSE /\ after.startTime = before.startTime
                           /\ after.endTime = before.endTime]_vars

\* C13: autoArrange is pure: the clip records of the array passed in have
\* the startTime and endTime after the call that they had before it.
C13_ArrangePure ==
  [][(pc = "ready" /\ pc' = "arranged") => input' = input]_vars

(***************************************************************************)
(* validateTimeline                                                        *)
(***************************************************************************)

\* !x  on an optional string: undefined, null and "" are falsy.
Missing(o) == o = None \/ o[1] = ""

\* The errors validateTimeline pushes for one clip, in the order of its tests.
ClipErrors(clip, index) ==
  (IF clip.startTime < 0
   THEN <<[index |-> index, message |-> "Start time cannot be negative"]>>
   ELSE <<>>)
  \o (IF clip.endTime <= clip.startTime
      THEN <<[index |-> index, message |-> "End time must be after start time"]>>
      ELSE <<>>)
  \o (IF clip.duration # Minus(clip.endTime, clip.startTime)
      THEN <<[index |-> index, message |-> "Duration mismatch"]>>
      ELSE <<>>)
  \o (IF Missing(clip.type)
      THEN <<[index |-> index, message |-> "Missing type"]>>
      ELSE <<>>)
  \o (IF Missing(clip.sourceAssetId) /\ Missing(clip.sourceUrl)
         /\ clip.type # Some("text")
      THEN <<[index |-> index, message |-> "Missing source"]>>
      ELSE <<>>)
  \o (IF clip.volume < 0 \/ clip.volume > 2
      THEN <<[index |-> index, message |-> "Volume out of range (0-2)"]>>
      ELSE <<>>)

\* clips.forEach((clip, index) => ...) from position i on; index counts
\* from 0.
RECURSIVE ValidateFrom(_, _)
ValidateFrom(cs, i) ==
  IF i > Len(cs) THEN <<>>
  ELSE ClipErrors(cs[i], i - 1) \o ValidateFrom(cs, i + 1)

\* validateTimeline as it would be if it stopped at the first error.
validateTimeline_failFast(cs) ==
  LET errors == ValidateFrom(cs, 1)
      first  == IF errors = <<>> THEN <<>> ELSE <<Head(errors)>>
  IN [valid |-> first = <<>>, errors |-> first]

\* validateTimeline
validateTimeline(cs) ==
  LET errors == ValidateFrom(cs, 1)
  IN [valid |-> Len(errors) = 0, errors |-> errors]

\* Clips handed to validateTimeline: each test can pass and can fail.
ValidateClips ==
  [startTime : {-1, 0}, endTime : {0, 1}, duration : {0, 1},
   type : Opt({"video", "text"}),
   sourceAssetId : Opt({"asset"}), sourceUrl : Opt({"url"}),
   volume : {-1, 0, 2, 3}]

\* Arrays of up to two such clips.
ValidateInputs ==
  UNION { [1..n -> ValidateClips] : n \in 0..2 }

InitValidate ==
  /\ clips = <<>>
  /\ nextId = 1
  /\ last = Idle
  /\ input \in ValidateInputs
  /\ output = NoOutput
  /\ pc = "ready"

\* validateTimeline on the array.
Validate ==
  /\ pc = "ready"
  /\ output' = validateTimeline(input)
  /\ pc' = "validated"
  /\ UNCHANGED <<clips, nextId, last, input>>

NextValidate == Validate

SpecValidate == InitValidate /\ [][NextValidate]_vars

\* The six checks of a clip, by the message of their error.
Checks ==
  {"Start time cannot be negative", "End time must be after start time",
   "Duration mismatch", "Missing type", "Missing source",
   "Volume out of range (0-2)"}

\* A clip fails a check.
Fails(clip, check) ==
  CASE check = "Start time cannot be negative" -> ~(clip.startTime >= 0)
    [] check = "End time must be after start time" ->
         ~(clip.endTime > clip.startTime)
    [] check = "Duration mismatch" -> ~DurationOk(clip)
    [] check = "Missing type" -> clip.type = None
    [] check = "Missing source" ->
         clip.type # Some("text")
           /\ clip.sourceAssetId = None /\ clip.sourceUrl = None
    [] check = "Volume out of range (0-2)" ->
         ~(0 <= clip.volume /\ clip.volume <= 2)

RECURSIVE TrackFilters(_, _, _)
TrackFilters(trackClips, trackIndex, i) ==
  IF i > Len(trackClips) THEN <<>>
  ELSE <<[trackIndex |-> trackIndex, clipIndex |-> i - 1,
          start |-> trackClips[i].startTime, end |-> trackClips[i].endTime]>>
         \o TrackFilters(trackClips, trackIndex, i + 1)

\* tracks.forEach(...) over the Map's keys in insertion order.
RECURSIVE FilterLoop(_, _)
FilterLoop(cs, keys) ==
  IF keys = <<>> THEN <<>>
  ELSE TrackFilters(TrackGroup(cs, Head(keys)), Head(keys), 1)
         \o FilterLoop(cs, Tail(keys))

\* exportToFFmpegCommands: the filters that are joined with ";\n".
exportToFFmpegCommands(cs) == FilterLoop(cs, TrackKeys(cs, {}))

\* exportTimelineToFormat; JSON.stringify keeps the array's order.
exportTimelineToFormat(cs, format) ==
  CASE format = "ffmpeg" ->
         [format |-> format, status |-> Ok, content |-> exportToFFmpegCommands(cs)]
    [] format = "json" ->
         [format |-> format, status |-> Ok, content |-> cs]
    [] OTHER ->
         [format |-> format, status |-> "UnsupportedFormat", content |-> <<>>]

\* Format strings a caller passes.
Formats == {"ffmpeg", "json", "premiere", "xml"}

\* exportTimelineToFormat on the array.
Export ==
  /\ pc = "ready"
  /\ \E format \in Formats : output' = exportTimelineToFormat(input, format)
  /\ pc' = "exported"
  /\ UNCHANGED <<clips, nextId, last, input>>

NextExport == Export

SpecExport == InitEngine /\ [][NextExport]_vars

\* C15: the ffmpeg export has one trim/setpts expression per clip, ordered by
\* track and, within a track, by ascending startTime, whatever the order of
\* the clips given; any format other than ffmpeg and json fails with
\* UnsupportedFormat.
C15_ExportOrdered ==
  pc = "exported"
  => /\ output.format = "ffmpeg"
          => LET filters == output.content
             IN /\ output.status = Ok
                /\ Len(filters) = Len(input)
                /\ \A i \in 1..Len(input) :
                     Cardinality({k \in 1..Len(filters) :
                                    /\ filters[k].trackIndex = input[i].trackIndex
                                    /\ filters[k].start = input[i].startTime
                                    /\ filters[k].end = input[i].endTime})
                       = Cardinality({j \in 1..Len(input) :
                                    /\ input[j].trackIndex = input[i].trackIndex
                                    /\ input[j].startTime = input[i].startTime
                                    /\ input[j].endTime = input[i].endTime})
                /\ \A k, l \in 1..Len(filters) :
                     k < l =>
                       \/ filters[k].trackIndex < filters[l].trackIndex
                       \/ /\ filters[k].trackIndex = filters[l].trackIndex
                          /\ filters[k].start <= filters[l].start
     /\ output.format \notin {"ffmpeg", "json"}
          => output.status = "UnsupportedFormat"

(***************************************************************************)
(* arrangeClips handlers running concurrently with other requests          *)
(*                                                                         *)
(* A handler gives up control at each await: the table can change between  *)
(* its SELECT and each of its UPDATEs.  input[h] holds the arranged clips  *)
(* handler h has still to write, output[h] the rows its SELECT returned.   *)
(***************************************************************************)

\* The arrangeClips requests in flight.
Handlers == {"h1", "h2"}

\* A video with two stored clips on track 0, each with startTime < endTime.
ArrangingStores ==
  {(Uuids[1] :> [id |-> Uuids[1], track_index |-> 0, start_time |-> r1[1],
                 end_time |-> r1[2], duration |-> Minus(r1[2], r1[1])])
     @@ (Uuids[2] :> [id |-> Uuids[2], track_index |-> 0, start_time |-> r2[1],
                      end_time |-> r2[2], duration |-> Minus(r2[2], r2[1])]) :
   r1 \in {r \in EngineTimes \X EngineTimes : r[1] < r[2]},
   r2 \in {r \in EngineTimes \X EngineTimes : r[1] < r[2]}}

InitArranging ==
  /\ clips \in ArrangingStores
  /\ nextId = Len(Uuids) + 1
  /\ last = Idle
  /\ input = [h \in Handlers |-> <<>>]
  /\ output = [h \in Handlers |-> <<>>]
  /\ pc = [h \in Handlers |-> "idle"]

\* arrangeClips up to its first UPDATE: getTimelineClips, autoArrangeClips.
ArrangeRead(h) ==
  /\ pc[h] = "idle"
  /\ \E order \in getTimelineClips(clips) :
       input' = [input EXCEPT ![h] =
                   autoArrangeClips([i \in 1..Len(order) |->
                                       parseClipFromRow(clips[order[i]])])]
  /\ output' = [output EXCEPT ![h] = clips]
  /\ pc' = [pc EXCEPT ![h] = "writing"]
  /\ UNCHANGED <<clips, nextId, last>>

\* One turn of  for (const clip of arrangedClips) await updateTimelineClip(...):
\* an exception (the row is gone) ends the handler.
ArrangeWrite(h) ==
  /\ pc[h] = "writing"
  /\ input[h] # <<>>
  /\ LET clip == Head(input[h])
         o    == updateTimelineClip(clips, nextId, clip.id,
                   [NoUpdates EXCEPT !.startTime = Some(clip.startTime),
                                     !.endTime   = Some(clip.endTime)])
     IN /\ clips' = o.db
        /\ IF o.status = Ok
           THEN /\ input' = [input EXCEPT ![h] = Tail(input[h])]
                /\ UNCHANGED <<output, pc>>
           ELSE /\ input' = [input EXCEPT ![h] = <<>>]
                /\ output' = [output EXCEPT ![h] = <<>>]
                /\ pc' = [pc EXCEPT ![h] = "failed"]
  /\ UNCHANGED <<nextId, last>>

\* res.json(...) after the last UPDATE.
ArrangeRespond(h) ==
  /\ pc[h] = "writing"
  /\ input[h] = <<>>
  /\ output' = [output EXCEPT ![h] = <<>>]
  /\ pc' = [pc EXCEPT ![h] = "done"]
  /\ UNCHANGED <<clips, nextId, last, input>>

\* A trim request with startTime < endTime, handled meanwhile.
TrimMeanwhile ==
  /\ \E clipId \in ClipIds, s \in EngineTimes, e \in EngineTimes :
       /\ s < e
       /\ clips' = trimTimelineClip(clips, nextId, clipId, s, e).db
  /\ UNCHANGED <<nextId, last, input, output, pc>>

\* A delete request handled meanwhile.
RemoveMeanwhile ==
  /\ \E clipId \in DOMAIN clips : clips' = removeClip(clips, nextId, clipId).db
  /\ UNCHANGED <<nextId, last, input, output, pc>>

NextArranging ==
  \/ \E h \in Handlers : ArrangeRead(h)
  \/ \E h \in Handlers : ArrangeWrite(h)
  \/ \E h \in Handlers : ArrangeRespond(h)
  \/ TrimMeanwhile
  \/ RemoveMeanwhile

SpecArranging == InitArranging /\ [][NextArranging]_vars

\* Handler h writes a clip in this step.
Writes(h) == pc[h] = "writing" /\ input[h] # <<>> /\ input'[h] # input[h]

\* C16: arrangements of one video are serialized: at most one is between its
\* read and its last write at a time, each of its writes replaces the row it
\* read (no change committed since is overwritten), and when it responds
\* the stored clips have no same-track overlap.
C16_ArrangeSerialized ==
  /\ [](Cardinality({h \in Handlers : pc[h] = "writing"}) <= 1)
  /\ [][\A h \in Handlers :
          /\ Writes(h) =>
               LET id == Head(input[h]).id
               IN id \in DOMAIN clips /\ clips[id] = output[h][id]
          /\ (pc[h] = "writing" /\ pc'[h] = "done") =>
               \A order \in getTimelineClips(clips) :
                 detectClipCollisions([i \in 1..Len(order) |->
                                         parseClipFromRow(clips[order[i]])]) = <<>>]_vars

(***************************************************************************)
(* Gaze correction (the eye tracking service)                              *)
(*                                                                         *)
(* A gaze number is a fraction <<n, d>> in lowest terms with d > 0, or one *)
(* of the values a division by zero produces: NaN is <<0, 0>>, Infinity    *)
(* <<1, 0>> and -Infinity <<-1, 0>>.  The frames and configurations drawn   *)
(* keep every intermediate value a fraction with a power of two below, on  *)
(* which the operations of a double are exact.                             *)
(***************************************************************************)

Abs(n) == IF n < 0 THEN 0 - n ELSE n

Sign(n) == IF n < 0 THEN -1 ELSE IF n = 0 THEN 0 ELSE 1

RECURSIVE Gcd(_, _)
Gcd(a, b) == IF b = 0 THEN a ELSE Gcd(b, a % b)

\* The number n / d.
Frac(n, d) ==
  IF d = 0 THEN <<Sign(n), 0>>
  ELSE LET g == Gcd(Abs(n), Abs(d))
       IN <<Sign(d) * (n \div g), Abs(d) \div g>>

NaN == <<0, 0>>

Num(n) == <<n, 1>>

Half == <<1, 2>>

\* a + b : Infinity + Infinity is Infinity, Infinity - Infinity is NaN.
NumAdd(a, b) ==
  IF a[2] = 0 /\ b[2] = 0
  THEN (IF a = b THEN a ELSE NaN)
  ELSE Frac(a[1] * b[2] + b[1] * a[2], a[2] * b[2])

\* a - b
NumSub(a, b) == NumAdd(a, <<0 - b[1], b[2]>>)

\* a * b : NaN * 0 and Infinity * 0 are NaN.
NumMul(a, b) == Frac(a[1] * b[1], a[2] * b[2])

\* a / b : 0 / 0 is NaN, x / 0 is an Infinity.
NumDiv(a, b) ==
  NumMul(a, IF b[1] # 0 THEN <<Sign(b[1]) * b[2], Abs(b[1])>>
            ELSE IF b[2] = 0 THEN NaN ELSE <<1, 0>>)

\* Math.sqrt on a number whose root is a fraction.
NumSqrt(a) ==
  IF a[2] = 0 THEN (IF a[1] > 0 THEN a ELSE NaN)
  ELSE IF a[1] < 0 THEN NaN
  ELSE <<CHOOSE r \in 0..a[1] : r * r = a[1],
         CHOOSE r \in 1..a[2] : r * r = a[2]>>

\* a > 0 : false for NaN.
NumPositive(a) == a[1] > 0

\* The number is neither NaN nor an Infinity.
Finite(a) == a[2] # 0

\* A position or a direction.
Vec(x, y, z) == [x |-> x, y |-> y, z |-> z]

\* calculateGazeToTarget
calculateGazeToTarget(leftEye, rightEye, target) ==
  LET centerX   == NumDiv(NumAdd(leftEye.x, rightEye.x), Num(2))
      centerY   == NumDiv(NumAdd(leftEye.y, rightEye.y), Num(2))
      centerZ   == NumDiv(NumAdd(leftEye.z, rightEye.z), Num(2))
      dx        == NumSub(target.x, centerX)
      dy        == NumSub(target.y, centerY)
      dz        == NumSub(target.z, centerZ)
      magnitude == NumSqrt(NumAdd(NumAdd(NumMul(dx, dx), NumMul(dy, dy)),
                                  NumMul(dz, dz)))
  IN Vec(NumDiv(dx, magnitude), NumDiv(dy, magnitude), NumDiv(dz, magnitude))

\* a * (1 - w) + b * w
Mix(a, b, w) == NumAdd(NumMul(a, NumSub(Num(1), w)), NumMul(b, w))

\* blendGazeDirections as it would be with the two weights exchanged.
blendGazeDirections_exchanged(original, target, strength) ==
  Vec(Mix(target.x, original.x, strength),
      Mix(target.y, original.y, strength),
      Mix(target.z, original.z, strength))

\* blendGazeDirections
blendGazeDirections(original, target, strength) ==
  Vec(Mix(original.x, target.x, strength),
      Mix(original.y, target.y, strength),
      Mix(original.z, target.z, strength))

\* smoothGazeDirection: previous * smoothing + current * (1 - smoothing).
smoothGazeDirection(previous, current, smoothing) ==
  Vec(NumAdd(NumMul(previous.x, smoothing),
             NumMul(current.x, NumSub(Num(1), smoothing))),
      NumAdd(NumMul(previous.y, smoothing),
             NumMul(current.y, NumSub(Num(1), smoothing))),
      NumAdd(NumMul(previous.z, smoothing),
             NumMul(current.z, NumSub(Num(1), smoothing))))

\* The for loop of applyGazeCorrection from frame i on (i counts from 1
\* here, the test i > 0 of the code is i > 1).
RECURSIVE CorrectFrom(_, _, _, _)
CorrectFrom(frames, config, i, correctedFrames) ==
  IF i > Len(frames) THEN correctedFrames
  ELSE LET frame       == frames[i]
           desiredGaze == calculateGazeToTarget(frame.leftEye, frame.rightEye,
                                                config.targetPosition)
           blended     == blendGazeDirections(frame.gazeDirection, desiredGaze,
                                              config.correctionStrength)
           correctedGaze ==
             IF i > 1 /\ NumPositive(config.smoothing)
             THEN smoothGazeDirection(correctedFrames[i - 1].gazeDirection,
                                      blended, config.smoothing)
             ELSE blended
       IN CorrectFrom(frames, config, i + 1,
            Append(correctedFrames, [frame EXCEPT !.gazeDirection = correctedGaze]))

\* applyGazeCorrection
applyGazeCorrection(frames, config) == CorrectFrom(frames, config, 1, <<>>)

\* Eye positions of a frame: left and right eye.
EyePairs ==
  {<<Vec(Num(-1), Num(0), Num(0)), Vec(Num(1), Num(0), Num(0))>>,
   <<Vec(Num(0), Num(0), Num(0)), Vec(Num(2), Num(0), Num(0))>>,
   <<Vec(Num(-2), Num(0), Num(0)), Vec(Num(0), Num(0), Num(0))>>}

\* Gaze directions the tracking service reports.
Gazes ==
  {Vec(Num(0), Num(0), Num(1)), Vec(Num(1), Num(0), Num(0)),
   Vec(Num(-1), Num(0), Num(0))}

\* config.targetPosition
Targets ==
  {Vec(Num(0), Num(0), Num(0)), Vec(Num(0), Num(0), Num(1)),
   Vec(Num(1), Num(0), Num(0)), Vec(Num(1), Num(0), Num(1))}

\* config.correctionStrength and config.smoothing: 0, 0.5 and 1.
Weights == {Num(0), Half, Num(1)}

\* Frames per sequence.
GazeFrameCounts == {0, 1, 2, 3}

\* Frame number k (from 0) of a sequence.
GazeFrame(k, eyes, gaze) ==
  [timestamp |-> Num(k), frameNumber |-> k, leftEye |-> eyes[1],
   rightEye |-> eyes[2], gazeDirection |-> gaze, confidence |-> Num(1)]

GazeSequences ==
  UNION { { [i \in 1..n |-> GazeFrame(i - 1, f[i][1], f[i][2])] :
            f \in [1..n -> EyePairs \X Gazes] } : n \in GazeFrameCounts }

GazeConfigs ==
  [targetPosition : Targets, correctionStrength : Weights, smoothing : Weights]

\* The squared distance from the midpoint of the eyes to the target has a
\* root that is a fraction.
HasRoot(frame, target) ==
  LET mid(a, b) == NumDiv(NumAdd(a, b), Num(2))
      sq(a)     == NumMul(a, a)
      d2 == NumAdd(NumAdd(sq(NumSub(target.x, mid(frame.leftEye.x, frame.rightEye.x))),
                          sq(NumSub(target.y, mid(frame.leftEye.y, frame.rightEye.y)))),
                   sq(NumSub(target.z, mid(frame.leftEye.z, frame.rightEye.z))))
  IN /\ \E r \in 0..d2[1] : r * r = d2[1]
     /\ \E r \in 1..d2[2] : r * r = d2[2]

InitGaze ==
  /\ clips = <<>>
  /\ nextId = 1
  /\ last = Idle
  /\ input \in {in \in [frames : GazeSequences, config : GazeConfigs] :
                  \A i \in 1..Len(in.frames) :
                    HasRoot(in.frames[i], in.config.targetPosition)}
  /\ output = NoOutput
  /\ pc = "ready"

\* applyGazeCorrection on the frames.
Correct ==
  /\ pc = "ready"
  /\ output' = applyGazeCorrection(input.frames, input.config)
  /\ pc' = "corrected"
  /\ UNCHANGED <<clips, nextId, last, input>>

NextGaze == Correct

SpecGaze == InitGaze /\ [][NextGaze]_vars

\* The gaze the code aims frame i at.
Desired(i) ==
  calculateGazeToTarget(input.frames[i].leftEye, input.frames[i].rightEye,
                        input.config.targetPosition)

\* blend(frame[i]): the frame's own gaze blended with the desired one.
Blend(i) ==
  blendGazeDirections(input.frames[i].gazeDirection, Desired(i),
                      input.config.correctionStrength)

\* C17: with correctionStrength = 0 the correction is a no-op: whatever the
\* frames, the target and the smoothing, every output frame has the
\* gazeDirection of its input frame.
C17_ZeroStrengthNoOp ==
  (pc = "corrected" /\ input.config.correctionStrength = Num(0))
  => /\ Len(output) = Len(input.frames)
     /\ \A i \in 1..Len(output) :
          output[i].gazeDirection = input.frames[i].gazeDirection

\* C18: with correctionStrength = 1 and smoothing = 0 every output frame's
\* gazeDirection is calculateGazeToTarget of that frame's eyes and the
\* target, whatever the input gazeDirection and the other frames.
C18_FullStrengthIsTarget ==
  (/\ pc = "corrected"
   /\ input.config.correctionStrength = Num(1)
   /\ input.config.smoothing = Num(0))
  => /\ Len(output) = Len(input.frames)
     /\ \A i \in 1..Len(output) : output[i].gazeDirection = Desired(i)

\* Three frames whose gaze differs from the desired one have been corrected
\* at full strength without smoothing.
C18_Witness ==
  /\ pc = "corrected"
  /\ input.config.correctionStrength = Num(1)
  /\ input.config.smoothing = Num(0)
  /\ Len(output) = 3
  /\ \A i \in 1..3 :
       /\ input.frames[i].gazeDirection # Desired(i)
       /\ Finite(Desired(i).x)
  /\ Desired(1) # Desired(2)

\* C19: the smoothing is a first-order recursive filter: out[0] is
\* blend(frame[0]), and for i >= 1
\* out[i] = out[i-1] * smoothing + blend(frame[i]) * (1 - smoothing) with
\* out[i-1] the corrected previous frame; the output has the length and
\* order of the input and keeps every field but gazeDirection.
C19_RecursiveFilter ==
  pc = "corrected"
  => /\ Len(output) = Len(input.frames)
     /\ \A i \in 1..Len(output) :
          /\ [output[i] EXCEPT !.gazeDirection = input.frames[i].gazeDirection]
               = input.frames[i]
          /\ output[i].gazeDirection
               = IF i = 1 THEN Blend(1)
                 ELSE smoothGazeDirection(output[i - 1].gazeDirection, Blend(i),
                                          input.config.smoothing)

\* C20: no output frame carries a gaze component that is not a number, the
\* target being the midpoint of the eyes included.
C20_NoUndefinedGaze ==
  pc = "corrected"
  => \A i \in 1..Len(output) :
       /\ Finite(output[i].gazeDirection.x)
       /\ Finite(output[i].gazeDirection.y)
       /\ Finite(output[i].gazeDirection.z)

(***************************************************************************)
(* Blink detection: detectBlinks walks the frames once and reports the     *)
(* runs of frames whose confidence is below 0.3.                           *)
(***************************************************************************)

\* a < b : false when either is NaN.
NumLess(a, b) ==
  /\ a # NaN
  /\ b # NaN
  /\ IF a[2] = 0 \/ b[2] = 0 THEN a[1] < b[1] /\ a # b
     ELSE a[1] * b[2] < b[1] * a[2]

\* The threshold 0.3 of detectBlinks.
BlinkThreshold == <<3, 10>>

\* const isBlinking = frame.confidence < 0.3
isBlinking(frame) == NumLess(frame.confidence, BlinkThreshold)

\* The for loop of detectBlinks from frame i on; blinkStart is None for null.
RECURSIVE BlinkLoop(_, _, _, _)
BlinkLoop(frames, i, blinkStart, blinks) ==
  IF i > Len(frames) THEN blinks
  ELSE LET frame == frames[i]
       IN IF isBlinking(frame) /\ blinkStart = None
          THEN BlinkLoop(frames, i + 1, Some(frame.timestamp), blinks)
          ELSE IF ~isBlinking(frame) /\ blinkStart # None
          THEN BlinkLoop(frames, i + 1, None,
                 Append(blinks, [start |-> blinkStart[1], end |-> frame.timestamp]))
          ELSE BlinkLoop(frames, i + 1, blinkStart, blinks)

\* detectBlinks
detectBlinks(frames) == BlinkLoop(frames, 1, None, <<>>)

\* frame.confidence as the tracking service reports it: 0, 0.2, 0.3 and 1.
Confidences == {Num(0), <<1, 5>>, BlinkThreshold, Num(1)}

\* Frames per sequence given to detectBlinks.
BlinkFrameCounts == {0, 1, 2, 3, 4}

\* Frame number k (from 0) with confidence c, the eyes level and the gaze
\* forward.
BlinkFrame(k, c) ==
  [timestamp |-> Num(k), frameNumber |-> k,
   leftEye |-> Vec(Num(-1), Num(0), Num(0)),
   rightEye |-> Vec(Num(1), Num(0), Num(0)),
   gazeDirection |-> Vec(Num(0), Num(0), Num(1)), confidence |-> c]

BlinkSequences ==
  UNION { { [i \in 1..n |-> BlinkFrame(i - 1, f[i])] :
            f \in [1..n -> Confidences] } : n \in BlinkFrameCounts }

InitBlink ==
  /\ clips = <<>>
  /\ nextId = 1
  /\ last = Idle
  /\ input \in BlinkSequences
  /\ output = NoOutput
  /\ pc = "ready"

\* detectBlinks on the frames.
DetectBlinks ==
  /\ pc = "ready"
  /\ output' = detectBlinks(input)
  /\ pc' = "detected"
  /\ UNCHANGED <<clips, nextId, last, input>>

NextBlink == DetectBlinks

SpecBlink == InitBlink /\ [][NextBlink]_vars

\* Frame i has a confidence below 0.3.
Low(i) == NumLess(input[i].confidence, BlinkThreshold)

\* The frames at which a run of low confidence opens and is closed again by
\* a later frame of confidence >= 0.3.
ClosedOpenings ==
  {i \in 1..Len(input) :
     /\ Low(i)
     /\ (i = 1 \/ ~Low(i - 1))
     /\ \E j \in (i + 1)..Len(input) : ~Low(j)}

\* The first frame after i whose confidence is >= 0.3.
Closing(i) == CHOOSE j \in (i + 1)..Len(input) :
                /\ ~Low(j)
                /\ \A k \in (i + 1)..(j - 1) : Low(k)

\* The intervals returned are, in order, one per run of low confidence that
\* a later frame closes, from the timestamp of the run's first frame to the
\* timestamp of the frame that closes it.
ClosedBlinksReported ==
  pc = "detected"
  => /\ Len(output) = Cardinality(ClosedOpenings)
     /\ \A n \in 1..Len(output) :
          \E i \in ClosedOpenings :
            /\ Cardinality({k \in ClosedOpenings : k < i}) = n - 1
            /\ output[n] = [start |-> input[i].timestamp,
                            end |-> input[Closing(i)].timestamp]

\* C21: detectBlinks returns one interval per blink, in order, opening at
\* the first frame of confidence < 0.3 and closing at the first later frame
\* of confidence >= 0.3, and every frame of confidence < 0.3 lies inside a
\* returned interval, the frames of a run that lasts to the end of the
\* sequence included.
C21_BlinkIntervals ==
  /\ ClosedBlinksReported
  /\ pc = "detected"
     => \A i \in 1..Len(input) :
          Low(i) => \E n \in 1..Len(output) :
                      /\ ~NumLess(input[i].timestamp, output[n].start)
                      /\ ~NumLess(output[n].end, input[i].timestamp)

(***************************************************************************)
(* Gaze heatmap: generateGazeHeatmap counts the frames per cell of a       *)
(* 50 x 50 grid and divides the counts by the largest one.                 *)
(***************************************************************************)

\* const gridSize = 50
gridSize == 50

\* Math.floor: NaN and the Infinities stay as they are.
NumFloor(a) == IF a[2] = 0 THEN a ELSE Num(a[1] \div a[2])

\* Math.floor((v + 1) * (gridSize / 2))
Bin(v) == NumFloor(NumMul(NumAdd(v, Num(1)), NumDiv(Num(gridSize), Num(2))))

\* x >= 0 && x < gridSize
InGrid(b) ==
  /\ b # NaN
  /\ ~NumLess(b, Num(0))
  /\ NumLess(b, Num(gridSize))

\* Array(gridSize).fill(0).map(() => Array(gridSize).fill(0))
EmptyGrid == [y \in 0..(gridSize - 1) |-> [x \in 0..(gridSize - 1) |-> 0]]

\* The forEach over the frames from frame i on: heatmap[y][x]++ for the
\* frames whose cell is in the grid.
RECURSIVE Accumulate(_, _, _)
Accumulate(frames, i, heatmap) ==
  IF i > Len(frames) THEN heatmap
  ELSE LET x == Bin(frames[i].gazeDirection.x)
           y == Bin(frames[i].gazeDirection.y)
       IN Accumulate(frames, i + 1,
            IF InGrid(x) /\ InGrid(y)
            THEN [heatmap EXCEPT ![y[1]][x[1]] = @ + 1]
            ELSE heatmap)

\* Math.max(...heatmap.flat())
MaxCell(heatmap) ==
  CHOOSE m \in {heatmap[y][x] : y \in DOMAIN heatmap, x \in DOMAIN heatmap} :
    \A y \in DOMAIN heatmap, x \in DOMAIN heatmap : heatmap[y][x] <= m

\* The normalisation as it would be without the test maxValue > 0.
Normalize_unguarded(heatmap) ==
  LET maxValue == MaxCell(heatmap)
  IN [y \in DOMAIN heatmap |->
        [x \in DOMAIN heatmap |-> Frac(heatmap[y][x], maxValue)]]

\* if (maxValue > 0) heatmap[y][x] = heatmap[y][x] / maxValue
Normalize(heatmap) ==
  LET maxValue == MaxCell(heatmap)
  IN [y \in DOMAIN heatmap |->
        [x \in DOMAIN heatmap |->
           IF maxValue > 0 THEN Frac(heatmap[y][x], maxValue)
           ELSE Num(heatmap[y][x])]]

\* generateGazeHeatmap (width and height are not used by the code)
generateGazeHeatmap(frames) == Normalize(Accumulate(frames, 1, EmptyGrid))

\* gazeDirection.x and .y of the frames: the cells 0, 25, 37 and 49, the
\* value 1 that falls into cell 50, a value below the grid and NaN.
HeatGazes ==
  {Vec(Num(-1), Num(-1), Num(0)), Vec(Num(0), Num(0), Num(1)),
   Vec(Half, Num(0), Half), Vec(<<24, 25>>, Num(0), Num(0)),
   Vec(Num(1), Num(0), Num(0)), Vec(Num(0), Num(-2), Num(0)),
   Vec(NaN, NaN, NaN)}

\* Frames per sequence given to generateGazeHeatmap.
HeatFrameCounts == {0, 1, 2, 3}

HeatSequences ==
  UNION { { [i \in 1..n |-> [BlinkFrame(i - 1, Num(1)) EXCEPT !.gazeDirection = f[i]]] :
            f \in [1..n -> HeatGazes] } : n \in HeatFrameCounts }

InitHeatmap ==
  /\ clips = <<>>
  /\ nextId = 1
  /\ last = Idle
  /\ input \in HeatSequences
  /\ output = NoOutput
  /\ pc = "ready"

\* generateGazeHeatmap on the frames; last keeps the counts before the
\* normalisation.
Heatmap ==
  /\ pc = "ready"
  /\ output' = generateGazeHeatmap(input)
  /\ last' = [raw |-> Accumulate(input, 1, EmptyGrid)]
  /\ pc' = "mapped"
  /\ UNCHANGED <<clips, nextId, input>>

NextHeatmap == Heatmap

SpecHeatmap == InitHeatmap /\ [][NextHeatmap]_vars

Cells == 0..(gridSize - 1)

\* The sum of the counts of a row from cell x on.
RECURSIVE RowSum(_, _)
RowSum(row, x) == IF x = gridSize THEN 0 ELSE row[x] + RowSum(row, x + 1)

\* The sum of the counts of a grid from row y on.
RECURSIVE SumFrom(_, _)
SumFrom(grid, y) ==
  IF y = gridSize THEN 0 ELSE RowSum(grid[y], 0) + SumFrom(grid, y + 1)

\* The frames whose cell floor((v + 1) * gridSize / 2) is outside
\* [0, gridSize) in x or in y.
OutOfRange ==
  {i \in 1..Len(input) :
     \/ ~InGrid(Bin(input[i].gazeDirection.x))
     \/ ~InGrid(Bin(input[i].gazeDirection.y))}

\* C23: the heatmap is a gridSize x gridSize grid of values within [0, 1];
\* the counts before the normalisation sum up to the number of frames minus
\* the frames whose cell is out of range; the normalisation divides by the
\* largest count, and the grid stays all zero when that count is 0.
C23_HeatmapNormalized ==
  pc = "mapped"
  => /\ DOMAIN output = Cells
     /\ \A y \in Cells : DOMAIN output[y] = Cells
     /\ \A y \in Cells, x \in Cells :
          /\ Finite(output[y][x])
          /\ ~NumLess(output[y][x], Num(0))
          /\ ~NumLess(Num(1), output[y][x])
     /\ SumFrom(last.raw, 0) = Len(input) - Cardinality(OutOfRange)
     /\ LET m == MaxCell(last.raw)
        IN \A y \in Cells, x \in Cells :
             output[y][x] = IF m = 0 THEN Num(0) ELSE Frac(last.raw[y][x], m)

\* Three frames, two of them in one cell and one out of range, have been
\* mapped: the grid holds a 1 and the frame out of range is not counted.
C23_Witness ==
  /\ pc = "mapped"
  /\ Len(input) = 3
  /\ Cardinality(OutOfRange) = 1
  /\ MaxCell(last.raw) = 2
  /\ \E y \in Cells, x \in Cells : output[y][x] = Num(1)

(***************************************************************************)
(* The eye-tracking record: startEyeTracking stores the configuration and  *)
(* starts the processing, processEyeTrackingAsync corrects the frames the  *)
(* tracking service returns and stores them, updateEyeTrackingConfig       *)
(* changes the configuration and corrects the stored frames again.         *)
(* output is the row of eye_tracking_data, input the configuration the     *)
(* processing was started with and the frames the service returned, last   *)
(* the last request, nextId the number of updates made.                    *)
(***************************************************************************)

\* Updates of one record.
MaxUpdates == 2

\* a || b on numbers: 0 and NaN are falsy.
NumOrElse(o, b) == IF o = None \/ o[1] = Num(0) \/ o[1] = NaN THEN b ELSE o[1]

\* An undefined field used as a number.
ToNumber(o) == IF o = None THEN NaN ELSE o[1]

\* The body of POST /video/:videoId (videoStorageKey and framerate do not
\* reach the correction and are left out).
StartBodies ==
  [targetPosition : Opt({Vec(Num(1), Num(0), Num(0))}),
   correctionStrength : Opt(Weights),
   smoothing : Opt(Weights),
   preserveBlinking : Opt(BOOLEAN)]

\* The body of PUT /:eyeTrackingId.
UpdateBodies ==
  [targetPosition : Opt({Vec(Num(1), Num(0), Num(0))}),
   correctionStrength : Opt(Weights),
   smoothing : Opt({Num(0), Half})]

\* The frames the tracking service returns: up to two frames, the eyes
\* level around the origin, of confidence 0.2 or 1.
TrackedFrameCounts == {0, 1, 2}

TrackedSequences ==
  UNION { { [i \in 1..n |->
               [BlinkFrame(i - 1, f[i][2]) EXCEPT !.gazeDirection = f[i][1]]] :
            f \in [1..n -> {Vec(Num(0), Num(0), Num(1)), Vec(Num(-1), Num(0), Num(0))}
                             \X {<<1, 5>>, Num(1)}] } :
          n \in TrackedFrameCounts }

\* const config: EyeTrackingConfig = { ... } of startEyeTracking
StartConfig(body) ==
  [targetPosition |-> IfDefined(body.targetPosition, Vec(Num(0), Num(0), Num(1))),
   correctionStrength |-> NumOrElse(body.correctionStrength, Num(1)),
   smoothing |-> NumOrElse(body.smoothing, Half),
   preserveBlinking |-> body.preserveBlinking # Some(FALSE)]

\* createEyeTrackingRecord: the row as inserted.
createEyeTrackingRecord(config) ==
  [target_position |-> config.targetPosition,
   correction_strength |-> config.correctionStrength,
   smoothing |-> config.smoothing,
   status |-> "pending",
   frames |-> None]

\* updateEyeTrackingFrames: the row with the frames written.
updateEyeTrackingFrames(row, frames) ==
  [row EXCEPT !.frames = Some(frames), !.status = "completed"]

InitTracking ==
  /\ clips = <<>>
  /\ nextId = 0
  /\ last = Idle
  /\ input = [config |-> None, tracked |-> None]
  /\ output = None
  /\ pc = "none"

\* startEyeTracking
StartEyeTracking ==
  /\ pc = "none"
  /\ \E body \in StartBodies :
       LET config == StartConfig(body)
       IN /\ output' = createEyeTrackingRecord(config)
          /\ input' = [config |-> Some(config), tracked |-> None]
          /\ last' = [op |-> "start", body |-> body, status |-> 202]
  /\ pc' = "pending"
  /\ UNCHANGED <<clips, nextId>>

\* processEyeTrackingAsync, the tracking service answering with frames.
ProcessEyeTracking ==
  /\ pc = "pending"
  /\ \E frames \in TrackedSequences :
       /\ input' = [input EXCEPT !.tracked = Some(frames)]
       /\ output' = updateEyeTrackingFrames(output,
                      applyGazeCorrection(frames, input.config[1]))
  /\ pc' = "completed"
  /\ UNCHANGED <<clips, nextId, last>>

\* processEyeTrackingAsync, the tracking service failing.
ProcessFails ==
  /\ pc = "pending"
  /\ output' = [output EXCEPT !.status = "failed"]
  /\ pc' = "failed"
  /\ UNCHANGED <<clips, nextId, last, input>>

\* updateEyeTrackingConfig: the given fields are written, then the stored
\* frames, if any, are corrected with the fields of the request and written
\* back.  Without a targetPosition calculateGazeToTarget throws on the first
\* frame, after the fields have been written.
UpdateEyeTrackingConfig ==
  /\ pc \in {"pending", "completed", "failed"}
  /\ nextId < MaxUpdates
  /\ \E body \in UpdateBodies :
       LET written ==
             [output EXCEPT
                !.target_position = IfDefined(body.targetPosition, @),
                !.correction_strength = IfDefined(body.correctionStrength, @),
                !.smoothing = IfDefined(body.smoothing, @)]
           originalFrames == output.frames[1]
       IN IF output.frames = None
          THEN /\ output' = written
               /\ last' = [op |-> "update", body |-> body, status |-> 200]
          ELSE IF Len(originalFrames) = 0
          THEN /\ output' = updateEyeTrackingFrames(written, <<>>)
               /\ last' = [op |-> "update", body |-> body, status |-> 200]
          ELSE IF body.targetPosition = None
          THEN /\ output' = written
               /\ last' = [op |-> "update", body |-> body, status |-> 500]
          ELSE /\ output' = updateEyeTrackingFrames(written,
                              applyGazeCorrection(originalFrames,
                                [targetPosition |-> body.targetPosition[1],
                                 correctionStrength |-> ToNumber(body.correctionStrength),
                                 smoothing |-> ToNumber(body.smoothing)]))
               /\ last' = [op |-> "update", body |-> body, status |-> 200]
  /\ nextId' = nextId + 1
  /\ pc' = IF output.frames = None THEN pc ELSE
           IF Len(output.frames[1]) > 0 /\ last'.status = 500 THEN pc ELSE "completed"
  /\ UNCHANGED <<clips, input>>

NextTracking ==
  \/ StartEyeTracking
  \/ ProcessEyeTracking
  \/ ProcessFails
  \/ UpdateEyeTrackingConfig

SpecTracking == InitTracking /\ [][NextTracking]_vars

\* The configuration stored in the row.
RowConfig ==
  [targetPosition |-> output.target_position,
   correctionStrength |-> output.correction_strength,
   smoothing |-> output.smoothing]

\* Frame i of the tracked frames lies in a blink interval of the tracked
\* frames (from its first frame up to the frame that closes it).
InBlink(i) ==
  LET blinks == detectBlinks(input.tracked[1])
      t == input.tracked[1][i].timestamp
  IN \E n \in 1..Len(blinks) :
       /\ ~NumLess(t, blinks[n].start)
       /\ NumLess(t, blinks[n].end)

\* C22: when the processing was started with preserveBlinking = true, every
\* stored frame whose timestamp lies in a blink interval of the tracked
\* frames keeps the gazeDirection the tracking service reported.
C22_BlinksPreserved ==
  (/\ pc = "completed"
   /\ nextId = 0
   /\ input.config[1].preserveBlinking)
  => \A i \in 1..Len(input.tracked[1]) :
       InBlink(i) => output.frames[1][i].gazeDirection
                       = input.tracked[1][i].gazeDirection

\* C24: the start request uses the correctionStrength and the smoothing of
\* the client for every value in [0, 1], 0 included; the defaults 1.0 and
\* 0.5 apply only when the field is absent.
C24_StartUsesSupplied ==
  (pc = "pending" /\ last.op = "start")
  => /\ input.config[1].correctionStrength
          = IfDefined(last.body.correctionStrength, Num(1))
     /\ input.config[1].smoothing = IfDefined(last.body.smoothing, Half)
     /\ output.correction_strength
          = IfDefined(last.body.correctionStrength, Num(1))
     /\ output.smoothing = IfDefined(last.body.smoothing, Half)

\* C30: after any updates of a completed record the stored frames are the
\* correction of the frames the tracking service returned under the
\* configuration now stored (omitted fields keeping their stored values),
\* however many updates came before.
C30_ReapplyFromTracked ==
  (pc = "completed" /\ nextId > 0 /\ input.tracked # None)
  => output.frames
       = Some(applyGazeCorrection(input.tracked[1], RowConfig))

(***************************************************************************)
(* Subtitles: generateSubtitles packs the words of the stored segments     *)
(* into entries (createSubtitleEntries, "packSegments" in the              *)
(* description).  Times are in hundredths of a second; a text is a string, *)
(* its length the number of its characters.                                *)
(***************************************************************************)

\* maxCharsPerLine: number = 42
DefaultMaxChars == 42

\* One second, in the hundredths that times are counted in.
Second == 100

\* maxDuration: number = 5
DefaultMaxDuration == 5 * Second

\* The entry a word starts.
EntryOf(word) == [start |-> word.start, end |-> word.end, text |-> word.word]

\* The loop over the words of a segment as it would be with >= for the test
\* of the line length.
RECURSIVE PackWords_atLimit(_, _, _, _, _, _)
PackWords_atLimit(words, i, currentEntry, entries, maxCharsPerLine, maxDuration) ==
  IF i > Len(words)
  THEN (IF currentEntry.text # "" THEN Append(entries, currentEntry) ELSE entries)
  ELSE LET word     == words[i]
           duration == Minus(word.end, currentEntry.start)
           newText  == currentEntry.text \o " " \o word.word
       IN IF Len(newText) >= maxCharsPerLine \/ duration > maxDuration
          THEN PackWords_atLimit(words, i + 1, EntryOf(word),
                 Append(entries, currentEntry), maxCharsPerLine, maxDuration)
          ELSE PackWords_atLimit(words, i + 1,
                 [currentEntry EXCEPT !.text = newText, !.end = word.end],
                 entries, maxCharsPerLine, maxDuration)

\* The loop over the words of a segment as it would be if appending a word
\* left the entry's end where it was.
RECURSIVE PackWords_keepEnd(_, _, _, _, _, _)
PackWords_keepEnd(words, i, currentEntry, entries, maxCharsPerLine, maxDuration) ==
  IF i > Len(words)
  THEN (IF currentEntry.text # "" THEN Append(entries, currentEntry) ELSE entries)
  ELSE LET word     == words[i]
           duration == Minus(word.end, currentEntry.start)
           newText  == currentEntry.text \o " " \o word.word
       IN IF Len(newText) > maxCharsPerLine \/ duration > maxDuration
          THEN PackWords_keepEnd(words, i + 1, EntryOf(word),
                 Append(entries, currentEntry), maxCharsPerLine, maxDuration)
          ELSE PackWords_keepEnd(words, i + 1,
                 [currentEntry EXCEPT !.text = newText],
                 entries, maxCharsPerLine, maxDuration)

\* The loop over the words of a segment from word i on (i counts from 1),
\* and the push of the last entry after it.
RECURSIVE PackWords(_, _, _, _, _, _)
PackWords(words, i, currentEntry, entries, maxCharsPerLine, maxDuration) ==
  IF i > Len(words)
  THEN (IF currentEntry.text # "" THEN Append(entries, currentEntry) ELSE entries)
  ELSE LET word     == words[i]
           duration == Minus(word.end, currentEntry.start)
           newText  == currentEntry.text \o " " \o word.word
       IN IF Len(newText) > maxCharsPerLine \/ duration > maxDuration
          THEN PackWords(words, i + 1, EntryOf(word),
                 Append(entries, currentEntry), maxCharsPerLine, maxDuration)
          ELSE PackWords(words, i + 1,
                 [currentEntry EXCEPT !.text = newText, !.end = word.end],
                 entries, maxCharsPerLine, maxDuration)

\* The loop over the segments from segment k on.
RECURSIVE PackFrom(_, _, _, _, _)
PackFrom(segments, k, entries, maxCharsPerLine, maxDuration) ==
  IF k > Len(segments) THEN entries
  ELSE LET words == IfDefined(segments[k].words, <<>>)
       IN PackFrom(segments, k + 1,
            IF Len(words) = 0 THEN entries
            ELSE PackWords(words, 2, EntryOf(words[1]), entries,
                           maxCharsPerLine, maxDuration),
            maxCharsPerLine, maxDuration)

\* createSubtitleEntries
createSubtitleEntries(segments, maxCharsPerLine, maxDuration) ==
  PackFrom(segments, 1, <<>>, maxCharsPerLine, maxDuration)

\* generateSubtitles: the entries stored in the subtitle track, the limits
\* left out of the request being 42 and 5.
generateSubtitles(segments, maxCharsPerLine, maxDuration) ==
  createSubtitleEntries(segments,
                        IfDefined(maxCharsPerLine, DefaultMaxChars),
                        IfDefined(maxDuration, DefaultMaxDuration))

\* A word with its timestamps.
Word(w, s, e) == [word |-> w, start |-> s, end |-> e]

\* The documented example: one segment, five words, maxCharsPerLine = 13.
Example ==
  [segments |-> << [words |-> Some(<< Word("Hello", 0, 50), Word("welcome", 60, 100),
                                      Word("to", 105, 115), Word("the", 120, 130),
                                      Word("video", 135, 200) >>)] >>,
   maxCharsPerLine |-> Some(13),
   maxDuration |-> None]

\* Words per segment and segments per transcription.
MaxWords == 3

MaxSegments == 2

\* Word number i of a segment: "a", "bb" or the empty word on [i-1, i], or
\* "a" on [i-1, i+1].
WordsAt(i) ==
  {Word("a", i - 1, i), Word("bb", i - 1, i), Word("", i - 1, i),
   Word("a", i - 1, i + 1)}

\* segment.words: absent, or up to MaxWords words.
SegmentWords ==
  {None} \cup
  UNION { {Some(ws) : ws \in {f \in [1..n -> UNION {WordsAt(i) : i \in 1..n}] :
                                 \A i \in 1..n : f[i] \in WordsAt(i)}} :
          n \in 0..MaxWords }

SubtitleSegments ==
  UNION { [1..n -> [words : SegmentWords]] : n \in 0..MaxSegments }

SubtitleInputs ==
  [segments : SubtitleSegments,
   maxCharsPerLine : Opt({1, 3}),
   maxDuration : Opt({1, 2})]

InitSubtitles ==
  /\ clips = <<>>
  /\ nextId = 1
  /\ last = Idle
  /\ input \in SubtitleInputs \cup {Example}
  /\ output = NoOutput
  /\ pc = "ready"

\* generateSubtitles on the stored segments.
GenerateSubtitles ==
  /\ pc = "ready"
  /\ output' = generateSubtitles(input.segments, input.maxCharsPerLine,
                                 input.maxDuration)
  /\ pc' = "packed"
  /\ UNCHANGED <<clips, nextId, last, input>>

NextSubtitles == GenerateSubtitles

SpecSubtitles == InitSubtitles /\ [][NextSubtitles]_vars

\* The limits in force.
MaxChars == IfDefined(input.maxCharsPerLine, DefaultMaxChars)

MaxDuration == IfDefined(input.maxDuration, DefaultMaxDuration)

\* An entry of the output.
Entry(s, e, t) == [start |-> s, end |-> e, text |-> t]

\* C25 as documented: for the example the entries are "Hello" 0-0.5,
\* "welcome to the" 0.6-1.3 and "video" 1.35-2.0.
C25_DocumentedExample ==
  (pc = "packed" /\ input = Example)
  => output = << Entry(0, 50, "Hello"), Entry(60, 130, "welcome to the"),
                 Entry(135, 200, "video") >>

\* C25 as amended: for the example (maxCharsPerLine = 13) the entries are
\* "Hello welcome" 0-1.0 and "to the video" 1.05-2.0.
C25_ExampleAsPacked ==
  (pc = "packed" /\ input = Example)
  => output = << Entry(0, 100, "Hello welcome"), Entry(105, 200, "to the video") >>

\* The example has been packed.
C25_Witness ==
  /\ pc = "packed"
  /\ input = Example
  /\ Len(output) = 2

\* C26: every entry respects both limits: its text is at most
\* maxCharsPerLine characters long and it lasts at most maxDuration.
C26_EntriesWithinLimits ==
  pc = "packed"
  => \A n \in 1..Len(output) :
       /\ Len(output[n].text) <= MaxChars
       /\ Minus(output[n].end, output[n].start) <= MaxDuration

\* The words of segment k, none when the segment has no word timestamps.
WordsOf(k) == IfDefined(input.segments[k].words, <<>>)

\* The words a to b of a segment joined by single spaces.
RECURSIVE JoinWords(_, _, _)
JoinWords(words, a, b) ==
  IF a = b THEN words[a].word
  ELSE JoinWords(words, a, b - 1) \o " " \o words[b].word

\* The entry made of the words a to b of a segment.
GroupEntry(words, a, b) ==
  Entry(words[a].start, words[b].end, JoinWords(words, a, b))

\* The ways to cut n words into consecutive groups, each given by the set
\* of the positions at which a group starts.
StartSets(n) == {S \in SUBSET (1..n) : 1 \in S}

\* The last position of the group that starts at a.
GroupEnd(S, n, a) ==
  IF \E b \in S : b > a
  THEN (CHOOSE b \in S : b > a /\ \A c \in S : c > a => b <= c) - 1
  ELSE n

\* The entries of the groups of S that start at position a or later.
RECURSIVE EntriesFrom(_, _, _)
EntriesFrom(words, S, a) ==
  LET b == GroupEnd(S, Len(words), a)
  IN <<GroupEntry(words, a, b)>>
       \o (IF b = Len(words) THEN <<>> ELSE EntriesFrom(words, S, b + 1))

\* The start of the group position i falls into when it does not start one.
GroupStart(S, i) == CHOOSE a \in S : a < i /\ \A c \in S : c < i => c <= a

\* Appending word i to the entry that starts at a exceeds a limit.
Exceeds(words, a, i) ==
  \/ Len(JoinWords(words, a, i)) > MaxChars
  \/ Minus(words[i].end, words[a].start) > MaxDuration

\* The greedy cut: a group starts at word i exactly when the entry open
\* before i cannot take it.
GreedyStarts(words) ==
  CHOOSE S \in StartSets(Len(words)) :
    \A i \in 2..Len(words) : i \in S <=> Exceeds(words, GroupStart(S \ {i}, i), i)

\* The entries of the greedy cut of the segments from segment k on.
RECURSIVE GreedyFrom(_)
GreedyFrom(k) ==
  IF k > Len(input.segments) THEN <<>>
  ELSE (IF Len(WordsOf(k)) = 0 THEN <<>>
        ELSE EntriesFrom(WordsOf(k), GreedyStarts(WordsOf(k)), 1))
       \o GreedyFrom(k + 1)

\* The sequence a is b with some of its entries of empty text left out.
RECURSIVE UpToEmpty(_, _)
UpToEmpty(a, b) ==
  IF b = <<>> THEN a = <<>>
  ELSE \/ a # <<>> /\ Head(a) = Head(b) /\ UpToEmpty(Tail(a), Tail(b))
       \/ Head(b).text = "" /\ UpToEmpty(a, Tail(b))

\* C27: the packing is greedy and maximal: within a segment an entry is
\* closed before a word exactly when the text with that word would be longer
\* than maxCharsPerLine or would last longer than maxDuration from the
\* entry's start, otherwise the word is appended; so every entry runs from
\* its first word's start to its last word's end and could not have taken
\* the first word of the next entry of its segment.  (Entries whose text is
\* empty may be missing from the output.)
C27_GreedyMaximal ==
  pc = "packed" => UpToEmpty(output, GreedyFrom(1))

\* Three words of one segment have been packed into two entries, the first
\* of two words: the third word did not fit.
C27_Witness ==
  /\ pc = "packed"
  /\ Len(input.segments) = 1
  /\ Len(WordsOf(1)) = 3
  /\ Len(output) = 2
  /\ output[1].end = WordsOf(1)[2].end
  /\ output[2].start = WordsOf(1)[3].start

\* The output from entry n on is, segment by segment from segment k on, a
\* cut of the segment's words into consecutive groups.
RECURSIVE CoversFrom(_, _)
CoversFrom(k, rest) ==
  IF k > Len(input.segments) THEN rest = <<>>
  ELSE IF Len(WordsOf(k)) = 0 THEN CoversFrom(k + 1, rest)
  ELSE \E S \in StartSets(Len(WordsOf(k))) :
         LET es == EntriesFrom(WordsOf(k), S, 1)
         IN /\ Len(es) <= Len(rest)
            /\ SubSeq(rest, 1, Len(es)) = es
            /\ CoversFrom(k + 1, SubSeq(rest, Len(es) + 1, Len(rest)))

\* C28: nothing is lost or reordered: segments without words contribute no
\* entry, no entry holds words of two segments, and the words of the
\* entries in output order are the words of the segments in segment order
\* and word order, each word once.
C28_NothingLost ==
  pc = "packed" => CoversFrom(1, output)

(***************************************************************************)
(* splitClip requests on one clip running concurrently                     *)
(*                                                                         *)
(* A handler gives up control at each await: after its SELECT, after its   *)
(* UPDATE of the original and after its INSERT of the second half.         *)
(* input[h] is the splitTime of handler h, output[h] the originalClip it   *)
(* read, last the row as it was before any request.                        *)
(***************************************************************************)

\* The clip both requests name.
SplitTarget == "c0"

\* A video with one stored clip, startTime < endTime.
SplittingStores ==
  {(SplitTarget :> [id |-> SplitTarget, track_index |-> 0, start_time |-> r[1],
                    end_time |-> r[2], duration |-> Minus(r[2], r[1])]) :
   r \in {r \in Times \X Times : r[1] < r[2]}}

InitSplitting ==
  /\ clips \in SplittingStores
  /\ nextId = 1
  /\ last = clips[SplitTarget]
  /\ \E t1 \in Times, t2 \in Times :
       /\ t1 < t2
       /\ input = [h \in Handlers |-> IF h = "h1" THEN t1 ELSE t2]
  /\ output = [h \in Handlers |-> <<>>]
  /\ pc = [h \in Handlers |-> "idle"]

\* splitClip up to its UPDATE: the SELECT and the test of the bounds.
SplitRead(h) ==
  /\ pc[h] = "idle"
  /\ UNCHANGED <<clips, nextId, last, input>>
  /\ IF SplitTarget \notin DOMAIN clips
     THEN /\ pc' = [pc EXCEPT ![h] = "failed"]
          /\ UNCHANGED output
     ELSE LET originalClip == parseClipFromRow(clips[SplitTarget])
          IN IF \/ input[h] <= originalClip.startTime
                \/ input[h] >= originalClip.endTime
             THEN /\ pc' = [pc EXCEPT ![h] = "rejected"]
                  /\ UNCHANGED output
             ELSE /\ pc' = [pc EXCEPT ![h] = "updating"]
                  /\ output' = [output EXCEPT ![h] = originalClip]

\* const firstClip = await updateTimelineClip(clipId, { endTime, duration })
SplitUpdate(h) ==
  /\ pc[h] = "updating"
  /\ LET o == updateTimelineClip(clips, nextId, SplitTarget,
                [NoUpdates EXCEPT
                   !.endTime  = Some(input[h]),
                   !.duration = Some(Minus(input[h], output[h].startTime))])
     IN /\ clips' = o.db
        /\ pc' = [pc EXCEPT ![h] = IF o.status = Ok THEN "inserting" ELSE "failed"]
  /\ UNCHANGED <<nextId, last, input, output>>

\* const secondClip = await createTimelineClip(..., { ...originalClip, ... })
SplitInsert(h) ==
  /\ pc[h] = "inserting"
  /\ LET o == createTimelineClip(clips, nextId,
                [Spread(output[h]) EXCEPT
                   !.startTime = input[h],
                   !.endTime   = output[h].endTime,
                   !.duration  = Some(Minus(output[h].endTime, input[h]))])
     IN /\ clips' = o.db
        /\ nextId' = o.nid
  /\ pc' = [pc EXCEPT ![h] = "done"]
  /\ UNCHANGED <<last, input, output>>

NextSplitting ==
  \/ \E h \in Handlers : SplitRead(h)
  \/ \E h \in Handlers : SplitUpdate(h)
  \/ \E h \in Handlers : SplitInsert(h)

SpecSplitting == InitSplitting /\ [][NextSplitting]_vars

\* Every request has ended.
SplitsEnded == \A h \in Handlers : pc[h] \in {"done", "rejected", "failed"}

\* The lengths of the stored clips, added up.
RECURSIVE TotalLength(_)
TotalLength(ids) ==
  IF ids = {} THEN 0
  ELSE LET id == CHOOSE i \in ids : TRUE
       IN (clips[id].end_time - clips[id].start_time) + TotalLength(ids \ {id})

\* C29: concurrent splits of one clip are safe: when both requests have
\* ended, the stored clips do not overlap, they cover exactly the interval
\* of the original clip, and the original is not left shortened without a
\* second half that starts where it ends.
C29_ConcurrentSplitSafe ==
  SplitsEnded
  => /\ \A a, b \in DOMAIN clips :
          a # b => ~(/\ clips[a].track_index = clips[b].track_index
                     /\ clips[a].start_time < clips[b].end_time
                     /\ clips[b].start_time < clips[a].end_time)
     /\ \A a \in DOMAIN clips :
          clips[a].start_time >= last.start_time /\ clips[a].end_time <= last.end_time
     /\ TotalLength(DOMAIN clips) = last.end_time - last.start_time
     /\ clips[SplitTarget].end_time # last.end_time
          => \E a \in DOMAIN clips :
               clips[a].start_time = clips[SplitTarget].end_time

====
